---- MODULE Spec2Model ----
(***************************************************************************)
(* Add-with-carry and subtract-with-borrow of libc's math_extras.h.        *)
(*                                                                         *)
(* A value of an unsigned type T is a little-endian sequence of            *)
(* Bits[T] / 8 digits of radix 2^8 (digit 1 is the least significant), so  *)
(* that the 32-, 64- and 128-bit types keep their true width although      *)
(* they do not fit a machine integer of the model checker.  Arithmetic of  *)
(* the narrow types is done, as in C++, in a promoted int and truncated    *)
(* by the assignment to T.                                                 *)
(***************************************************************************)
EXTENDS Integers, Sequences, FiniteSets

(***************************************************************************)
(* Bounds of the model.                                                    *)
(***************************************************************************)
\* operand digits are taken within Edge of 0 and of the largest digit
Edge == 2
\* longest limb chain of the multi-limb addition
MaxLimbs == 2

(***************************************************************************)
(* The unsigned types and their representation.                            *)
(***************************************************************************)
Base == 2 ^ 8

\* the types add_with_carry / sub_with_borrow are explicitly specialised for
Specialised ==
  {"unsigned char", "unsigned short", "unsigned int", "unsigned long",
   "unsigned long long"}

\* every type the generic templates are instantiated with
Types == Specialised \cup {"__uint128_t"}

\* width of each type in bits (LP64)
Bits ==
  [T \in Types |->
     CASE T = "unsigned char"      -> 8
       [] T = "unsigned short"     -> 16
       [] T = "unsigned int"       -> 32
       [] T = "unsigned long"      -> 64
       [] T = "unsigned long long" -> 64
       [] T = "__uint128_t"        -> 128]

NumDigits(T) == Bits[T] \div 8

\* types of rank below int: their operands are promoted to int
Promoted(T) == Bits[T] < 32

Values(T) == [1..NumDigits(T) -> 0..(Base - 1)]

\* the value k < Base converted to T
Lit(T, k) == [i \in 1..NumDigits(T) |-> IF i = 1 THEN k ELSE 0]

\* the largest value of T
Max(T) == [i \in 1..NumDigits(T) |-> Base - 1]

\* conversion of a narrow value to int
ToInt(x) == IF Len(x) = 1 THEN x[1] ELSE x[1] + Base * x[2]

\* conversion of an int to the narrow type T: reduction modulo 2^Bits[T]
Trunc(T, v) ==
  LET m == v % (2 ^ Bits[T])
  IN  [i \in 1..NumDigits(T) |-> IF i = 1 THEN m % Base ELSE m \div Base]

(***************************************************************************)
(* Unsigned arithmetic at the width of the operands.                       *)
(***************************************************************************)
RECURSIVE AddFrom(_, _, _, _)
\* the digits i.. of x + y, c being the carry into digit i
AddFrom(x, y, i, c) ==
  IF i > Len(x) THEN <<>>
  ELSE <<(x[i] + y[i] + c) % Base>>
         \o AddFrom(x, y, i + 1, (x[i] + y[i] + c) \div Base)

\* x + y modulo Base^Len(x)
WrapAdd(x, y) == AddFrom(x, y, 1, 0)

RECURSIVE CarryFrom(_, _, _, _)
CarryFrom(x, y, i, c) ==
  IF i > Len(x) THEN c
  ELSE CarryFrom(x, y, i + 1, (x[i] + y[i] + c) \div Base)

\* the carry out of the top digit of x + y: 1 iff x + y wraps
CarryOut(x, y) == CarryFrom(x, y, 1, 0)

RECURSIVE SubFrom(_, _, _, _)
\* the digits i.. of x - y, c being the borrow into digit i
SubFrom(x, y, i, c) ==
  IF i > Len(x) THEN <<>>
  ELSE <<(x[i] - y[i] - c) % Base>>
         \o SubFrom(x, y, i + 1, IF x[i] - y[i] - c < 0 THEN 1 ELSE 0)

\* x - y modulo Base^Len(x)
WrapSub(x, y) == SubFrom(x, y, 1, 0)

RECURSIVE BorrowFrom(_, _, _, _)
BorrowFrom(x, y, i, c) ==
  IF i > Len(x) THEN c
  ELSE BorrowFrom(x, y, i + 1, IF x[i] - y[i] - c < 0 THEN 1 ELSE 0)

\* the borrow out of the top digit of x - y: 1 iff x - y wraps
BorrowOut(x, y) == BorrowFrom(x, y, 1, 0)

RECURSIVE LessFrom(_, _, _)
LessFrom(x, y, i) ==
  IF i = 0 THEN FALSE
  ELSE IF x[i] # y[i] THEN x[i] < y[i] ELSE LessFrom(x, y, i - 1)

\* x < y, compared from the most significant digit
Less(x, y) == LessFrom(x, y, Len(x))

\* C++ `x + y` assigned to a T
Add(T, x, y) ==
  IF Promoted(T) THEN Trunc(T, ToInt(x) + ToInt(y)) ELSE WrapAdd(x, y)

\* C++ `x - y` assigned to a T
Sub(T, x, y) ==
  IF Promoted(T) THEN Trunc(T, ToInt(x) - ToInt(y)) ELSE WrapSub(x, y)

\* C++ `x < y` as an int
Lt(T, x, y) ==
  IF (IF Promoted(T) THEN ToInt(x) < ToInt(y) ELSE Less(x, y)) THEN 1 ELSE 0

\* C++ `x > y` as an int
Gt(T, x, y) == Lt(T, y, x)

(***************************************************************************)
(* The portable strategy.                                                  *)
(***************************************************************************)
\* seeded fault: the wrap of the first stage (tmp < a) is not counted
add_with_carry_const_first_stage_lost(T, a, b, carry_in) ==
  LET tmp == Add(T, a, carry_in)
      sum == Add(T, b, tmp)
      carry_out == Lit(T, Lt(T, sum, b))
  IN  [sum |-> sum, carry |-> carry_out]

\* seeded fault: the second stage is tested with <= instead of <
add_with_carry_const_le(T, a, b, carry_in) ==
  LET tmp == Add(T, a, carry_in)
      sum == Add(T, b, tmp)
      carry_out == Lit(T, (IF sum = b THEN 1 ELSE Lt(T, sum, b)) + Lt(T, tmp, a))
  IN  [sum |-> sum, carry |-> carry_out]

\* seeded fault: the two stage wraps are OR-ed instead of added
add_with_carry_const_or(T, a, b, carry_in) ==
  LET tmp == Add(T, a, carry_in)
      sum == Add(T, b, tmp)
      carry_out == Lit(T, IF Lt(T, sum, b) + Lt(T, tmp, a) > 0 THEN 1 ELSE 0)
  IN  [sum |-> sum, carry |-> carry_out]

add_with_carry_const(T, a, b, carry_in) ==
  LET tmp == Add(T, a, carry_in)
      sum == Add(T, b, tmp)
      carry_out == Lit(T, Lt(T, sum, b) + Lt(T, tmp, a))
  IN  [sum |-> sum, carry |-> carry_out]

\* seeded fault: the first stage is tested against b instead of a
sub_with_borrow_const_cmp_b(T, a, b, borrow_in) ==
  LET tmp == Sub(T, a, b)
      diff == Sub(T, tmp, borrow_in)
      borrow_out == Lit(T, Gt(T, diff, tmp) + Gt(T, tmp, b))
  IN  [diff |-> diff, borrow |-> borrow_out]

sub_with_borrow_const(T, a, b, borrow_in) ==
  LET tmp == Sub(T, a, b)
      diff == Sub(T, tmp, borrow_in)
      borrow_out == Lit(T, Gt(T, diff, tmp) + Gt(T, tmp, a))
  IN  [diff |-> diff, borrow |-> borrow_out]

(***************************************************************************)
(* The compiler's multiprecision builtins: two overflow-checked stages,    *)
(* the carry-out (borrow-out) being the OR of the two stage overflows.     *)
(***************************************************************************)
builtin_addc(x, y, carryin) ==
  LET s1 == WrapAdd(x, y)
      c1 == CarryOut(x, y)
      s2 == WrapAdd(s1, carryin)
      c2 == CarryOut(s1, carryin)
  IN  [value |-> s2, carryout |-> IF c1 = 1 \/ c2 = 1 THEN 1 ELSE 0]

builtin_subc(x, y, carryin) ==
  LET d1 == WrapSub(x, y)
      c1 == BorrowOut(x, y)
      d2 == WrapSub(d1, carryin)
      c2 == BorrowOut(d1, carryin)
  IN  [value |-> d2, carryout |-> IF c1 = 1 \/ c2 = 1 THEN 1 ELSE 0]

(***************************************************************************)
(* The accelerated strategy: the explicit specialisations.                 *)
(***************************************************************************)
\* seeded fault: the specialisation passes no carry_in to the builtin
add_with_carry_builtin_no_carry_in(T, a, b, carry_in) ==
  LET r == builtin_addc(a, b, Lit(T, 0))
  IN  [sum |-> r.value, carry |-> Lit(T, r.carryout)]

add_with_carry_builtin(T, a, b, carry_in) ==
  LET r == builtin_addc(a, b, carry_in)
  IN  [sum |-> r.value, carry |-> Lit(T, r.carryout)]

sub_with_borrow_builtin(T, a, b, borrow_in) ==
  LET r == builtin_subc(a, b, borrow_in)
  IN  [diff |-> r.value, borrow |-> Lit(T, r.carryout)]

(***************************************************************************)
(* State: the build configuration, one call of an entry point, and one     *)
(* limb-by-limb addition of two multi-limb numbers.                        *)
(***************************************************************************)
VARIABLES
  has_addc,   \* LIBC_HAS_BUILTIN(__builtin_addc)
  has_subc,   \* LIBC_HAS_BUILTIN(__builtin_subc)
  T,          \* the template argument
  a, b, cin,  \* the arguments of the call (cin: carry_in or borrow_in)
  called,     \* the function that has returned, "none" before the call
  result,     \* the returned SumCarry<T> or DiffBorrow<T>
  A, B,       \* the limbs of the two numbers, least significant first
  R,          \* the limbs of the sum produced so far
  carry       \* the carry out of the last limb added

vars == <<has_addc, has_subc, T, a, b, cin, called, result, A, B, R, carry>>

\* seeded fault: only the types up to 32 bits are specialised under the guard
StrategyIn_narrow_only(available, t) ==
  IF available /\ t \in Specialised /\ Bits[t] <= 32
  THEN "accelerated" ELSE "portable"

\* the strategy an entry point is bound to for type t in a build whose
\* preprocessor finds the engine's builtin available or not
StrategyIn(available, t) ==
  IF available /\ t \in Specialised THEN "accelerated" ELSE "portable"

\* the strategy the entry point of the add engine is bound to for type t
AddStrategy(t) == StrategyIn(has_addc, t)

\* the strategy the entry point of the subtract engine is bound to for type t
SubStrategy(t) == StrategyIn(has_subc, t)

\* seeded fault: the specialisations are compiled in whatever the guard says
add_with_carry_unguarded(t, x, y, carry_in) ==
  IF t \in Specialised
  THEN add_with_carry_builtin(t, x, y, carry_in)
  ELSE add_with_carry_const(t, x, y, carry_in)

\* the entry point: the generic template unless a specialisation is compiled in
add_with_carry(t, x, y, carry_in) ==
  IF AddStrategy(t) = "accelerated"
  THEN add_with_carry_builtin(t, x, y, carry_in)
  ELSE add_with_carry_const(t, x, y, carry_in)

sub_with_borrow(t, x, y, borrow_in) ==
  IF SubStrategy(t) = "accelerated"
  THEN sub_with_borrow_builtin(t, x, y, borrow_in)
  ELSE sub_with_borrow_const(t, x, y, borrow_in)

(***************************************************************************)
(* The operands the model draws: every digit pattern near 0, near the      *)
(* largest value and on both sides of the top bit.                         *)
(***************************************************************************)
LowDigits == (0..Edge) \cup ((Base - 1 - Edge)..(Base - 1))

\* <<top digit, digits between the lowest and the top>>
UpperPatterns ==
  {<<0, 0>>, <<Base - 1, Base - 1>>, <<Base \div 2 - 1, Base - 1>>,
   <<Base \div 2, 0>>}

Samples(t) ==
  IF NumDigits(t) = 1
  THEN {<<d>> : d \in LowDigits \cup {Base \div 2 - 1, Base \div 2}}
  ELSE {[i \in 1..NumDigits(t) |->
           IF i = 1 THEN lo ELSE IF i = NumDigits(t) THEN u[1] ELSE u[2]] :
          lo \in LowDigits, u \in UpperPatterns}

\* carry_in / borrow_in: the contract's 0 and 1, and values outside it
CarryValues(t) == {Lit(t, 0), Lit(t, 1), Lit(t, 2), Max(t)}

ChainLimbs(t) == {Lit(t, 0), Lit(t, 1), Max(t)}

Init ==
  /\ has_addc \in BOOLEAN
  /\ has_subc \in BOOLEAN
  /\ T \in Types
  /\ a \in Samples(T)
  /\ b \in Samples(T)
  /\ cin \in CarryValues(T)
  /\ called = "none"
  /\ result = <<>>
  /\ A = <<>> /\ B = <<>> /\ R = <<>> /\ carry = <<>>

Return(f, r) ==
  /\ called = "none"
  /\ called' = f
  /\ result' = r
  /\ UNCHANGED <<has_addc, has_subc, T, a, b, cin, A, B, R, carry>>

Call_add_with_carry_const ==
  Return("add_with_carry_const", add_with_carry_const(T, a, b, cin))

Call_add_with_carry ==
  Return("add_with_carry", add_with_carry(T, a, b, cin))

Call_sub_with_borrow_const ==
  Return("sub_with_borrow_const", sub_with_borrow_const(T, a, b, cin))

Call_sub_with_borrow ==
  Return("sub_with_borrow", sub_with_borrow(T, a, b, cin))

Next ==
  \/ Call_add_with_carry_const
  \/ Call_add_with_carry
  \/ Call_sub_with_borrow_const
  \/ Call_sub_with_borrow

Spec == Init /\ [][Next]_vars

(***************************************************************************)
(* Limb-by-limb addition of two multi-limb numbers: the carry out of each  *)
(* limb is the carry into the next, the first carry in is 0.               *)
(***************************************************************************)
InitChain ==
  /\ has_addc \in BOOLEAN
  /\ has_subc \in BOOLEAN
  /\ T \in Types
  /\ \E n \in 1..MaxLimbs :
       /\ A \in [1..n -> ChainLimbs(T)]
       /\ B \in [1..n -> ChainLimbs(T)]
  /\ R = <<>>
  /\ carry = Lit(T, 0)
  /\ a = <<>> /\ b = <<>> /\ cin = <<>>
  /\ called = "none"
  /\ result = <<>>

AddLimb ==
  /\ Len(R) < Len(A)
  /\ LET k == Len(R) + 1
         r == add_with_carry(T, A[k], B[k], carry)
     IN  /\ R' = Append(R, r.sum)
         /\ carry' = r.carry
  /\ UNCHANGED <<has_addc, has_subc, T, a, b, cin, called, result, A, B>>

NextChain == AddLimb

SpecChain == InitChain /\ [][NextChain]_vars

(***************************************************************************)
(* Unbounded integers, for stating the identities: a natural number below  *)
(* Base^m is its sequence of m digits, and the sums below never reach      *)
(* Base^m.                                                                 *)
(***************************************************************************)
Ext(x, m) == [i \in 1..m |-> IF i <= Len(x) THEN x[i] ELSE 0]

\* x + y + z as a number of 2 * Len(x) digits
Sum3(x, y, z) ==
  LET m == 2 * Len(x)
  IN  WrapAdd(WrapAdd(Ext(x, m), Ext(y, m)), Ext(z, m))

\* lo + hi * 2^w as a number of 2 * Len(lo) digits
Join(lo, hi) == [i \in 1..(2 * Len(lo)) |->
                   IF i <= Len(lo) THEN lo[i] ELSE hi[i - Len(lo)]]

RECURSIVE Flatten(_)
\* the digits of a multi-limb number
Flatten(limbs) ==
  IF Len(limbs) = 0 THEN <<>>
  ELSE Ext(limbs[1], Len(limbs[1])) \o Flatten(SubSeq(limbs, 2, Len(limbs)))

Bit(t) == {Lit(t, 0), Lit(t, 1)}

(***************************************************************************)
(* The claims.                                                             *)
(***************************************************************************)
InContract == cin \in Bit(T)

\* C1 (carry identity): for every type, every a, b and every carry_in in
\* {0, 1}, add_with_carry_const returns (sum, carry_out) with
\* a + b + carry_in = sum + carry_out * 2^w over the unbounded integers and
\* 0 <= sum <= 2^w - 1.
C1_CarryIdentity ==
  (called = "add_with_carry_const" /\ InContract) =>
    /\ result.sum \in Values(T)
    /\ result.carry \in Values(T)
    /\ Sum3(a, b, cin) = Join(result.sum, result.carry)
    /\ Promoted(T) =>
         ToInt(a) + ToInt(b) + ToInt(cin)
           = ToInt(result.sum) + ToInt(result.carry) * 2 ^ Bits[T]

C1_Witness ==
  /\ called = "add_with_carry_const"
  /\ T = "unsigned long"
  /\ a = Max(T) /\ b = Max(T) /\ cin = Lit(T, 1)
  /\ result.carry = Lit(T, 1)

\* C2 (borrow identity): for every type, every a, b and every borrow_in in
\* {0, 1}, sub_with_borrow_const returns (diff, borrow_out) with
\* a - b - borrow_in = diff - borrow_out * 2^w over the unbounded integers
\* (stated as a + borrow_out * 2^w = diff + b + borrow_in) and
\* 0 <= diff <= 2^w - 1.
C2_BorrowIdentity ==
  (called = "sub_with_borrow_const" /\ InContract) =>
    /\ result.diff \in Values(T)
    /\ result.borrow \in Values(T)
    /\ Join(a, result.borrow) = Sum3(result.diff, b, cin)
    /\ Promoted(T) =>
         ToInt(a) - ToInt(b) - ToInt(cin)
           = ToInt(result.diff) - ToInt(result.borrow) * 2 ^ Bits[T]

C2_Witness ==
  /\ called = "sub_with_borrow_const"
  /\ T = "unsigned int"
  /\ a = Lit(T, 0) /\ b = Max(T) /\ cin = Lit(T, 1)
  /\ result.borrow = Lit(T, 1)

\* C3 (arithmetic equivalence): for every specialised type, every a, b and
\* every carry_in / borrow_in in {0, 1}, the accelerated specialisation of
\* add_with_carry (sub_with_borrow) returns exactly the pair that
\* add_with_carry_const (sub_with_borrow_const) returns.
C3_Equivalence ==
  /\ (called = "add_with_carry" /\ AddStrategy(T) = "accelerated"
        /\ InContract) =>
       result = add_with_carry_const(T, a, b, cin)
  /\ (called = "sub_with_borrow" /\ SubStrategy(T) = "accelerated"
        /\ InContract) =>
       result = sub_with_borrow_const(T, a, b, cin)

C3_Witness ==
  /\ called = "sub_with_borrow"
  /\ SubStrategy(T) = "accelerated"
  /\ T = "unsigned short"
  /\ cin = Lit(T, 1)
  /\ Less(a, b)
  /\ result.borrow = Lit(T, 1)

\* C4 (flag range): with carry_in (borrow_in) 0 or 1, the carry_out of
\* add_with_carry_const and the borrow_out of sub_with_borrow_const are 0 or
\* 1: the two stage-wrap indicators that are added are never both 1.
C4_FlagRange ==
  /\ (called = "add_with_carry_const" /\ InContract) =>
       /\ result.carry \in Bit(T)
       /\ LET tmp == Add(T, a, cin)
          IN  ~(Lt(T, result.sum, b) = 1 /\ Lt(T, tmp, a) = 1)
  /\ (called = "sub_with_borrow_const" /\ InContract) =>
       /\ result.borrow \in Bit(T)
       /\ LET tmp == Sub(T, a, b)
          IN  ~(Gt(T, result.diff, tmp) = 1 /\ Gt(T, tmp, a) = 1)

C4_Witness ==
  /\ called = "add_with_carry_const"
  /\ T = "unsigned char"
  /\ a = Max(T) /\ b = Lit(T, 0) /\ cin = Lit(T, 1)
  /\ result = [sum |-> Lit(T, 0), carry |-> Lit(T, 1)]

\* C5 (chaining): adding two multi-limb numbers limb by limb, each limb's
\* carry_out being the next limb's carry_in and the first carry_in 0, gives
\* after every limb the limbs of (A + B) mod 2^(k*w) and the carry
\* floor((A + B) / 2^(k*w)) of the k limbs added; every carry passed on is 0
\* or 1; for two limbs, (MAX, 0) + (1, 0) gives the limbs (0, 1).
C5_Chaining ==
  LET k  == Len(R)
      Ak == Flatten(SubSeq(A, 1, k))
      Bk == Flatten(SubSeq(B, 1, k))
  IN  /\ carry \in Bit(T)
      /\ Flatten(R) = WrapAdd(Ak, Bk)
      /\ carry = Lit(T, CarryOut(Ak, Bk))
      /\ (k = 2 /\ A = <<Max(T), Lit(T, 0)>> /\ B = <<Lit(T, 1), Lit(T, 0)>>) =>
           R = <<Lit(T, 0), Lit(T, 1)>>

C5_Witness ==
  /\ T = "unsigned long"
  /\ A = <<Max(T), Lit(T, 0)>>
  /\ B = <<Lit(T, 1), Lit(T, 0)>>
  /\ R = <<Lit(T, 0), Lit(T, 1)>>
  /\ carry = Lit(T, 0)

\* C6 (boundary cases): for every type, add_with_carry(MAX, MAX, 1) returns
\* (MAX, 1) and sub_with_borrow(0, 0, 1) returns (MAX, 1), under the portable
\* and under the accelerated strategy.
C6_Boundary ==
  /\ (called \in {"add_with_carry", "add_with_carry_const"}
        /\ a = Max(T) /\ b = Max(T) /\ cin = Lit(T, 1)) =>
       result = [sum |-> Max(T), carry |-> Lit(T, 1)]
  /\ (called \in {"sub_with_borrow", "sub_with_borrow_const"}
        /\ a = Lit(T, 0) /\ b = Lit(T, 0) /\ cin = Lit(T, 1)) =>
       result = [diff |-> Max(T), borrow |-> Lit(T, 1)]

C6_Witness ==
  /\ called = "add_with_carry"
  /\ AddStrategy(T) = "portable"
  /\ T = "unsigned long long"
  /\ a = Max(T) /\ b = Max(T) /\ cin = Lit(T, 1)
  /\ result.sum = Max(T)

\* C7 (zero identity): for every type and every a, add_with_carry(a, 0, 0)
\* returns (a, 0) and sub_with_borrow(a, 0, 0) returns (a, 0).
C7_ZeroIdentity ==
  (b = Lit(T, 0) /\ cin = Lit(T, 0)) =>
    /\ called \in {"add_with_carry", "add_with_carry_const"} =>
         result = [sum |-> a, carry |-> Lit(T, 0)]
    /\ called \in {"sub_with_borrow", "sub_with_borrow_const"} =>
         result = [diff |-> a, borrow |-> Lit(T, 0)]

C7_Witness ==
  /\ called = "sub_with_borrow"
  /\ SubStrategy(T) = "portable"
  /\ b = Lit(T, 0) /\ cin = Lit(T, 0)
  /\ a = Max(T)
  /\ result.diff = Max(T)

\* the availabilities an engine's builtin has over the build configurations:
\* that of the current build and the opposite one
Availabilities(current) == {current, ~current}

C9_Fallback ==
  /\ (called = "add_with_carry" /\ (~has_addc \/ T \notin Specialised)) =>
       result = add_with_carry_const(T, a, b, cin)
  /\ (called = "sub_with_borrow" /\ (~has_subc \/ T \notin Specialised)) =>
       result = sub_with_borrow_const(T, a, b, cin)

C9_Witness ==
  /\ has_addc /\ ~has_subc
  /\ called = "sub_with_borrow"
  /\ T \in Specialised
  /\ a = Lit(T, 0) /\ b = Max(T) /\ cin = Max(T)
  /\ result.borrow = Lit(T, 2)

\* C10 (any carry value): for every type and every a, b, c of the type,
\* add_with_carry_const satisfies a + b + c = sum + carry_out * 2^w and
\* sub_with_borrow_const satisfies a - b - c = diff - borrow_out * 2^w over
\* the unbounded integers; the flag is 0, 1 or 2, and 2 only if c > 1.
C10_AnyCarry ==
  /\ called = "add_with_carry_const" =>
       /\ Sum3(a, b, cin) = Join(result.sum, result.carry)
       /\ result.carry \in {Lit(T, 0), Lit(T, 1), Lit(T, 2)}
       /\ result.carry = Lit(T, 2) => cin \notin Bit(T)
  /\ called = "sub_with_borrow_const" =>
       /\ Join(a, result.borrow) = Sum3(result.diff, b, cin)
       /\ result.borrow \in {Lit(T, 0), Lit(T, 1), Lit(T, 2)}
       /\ result.borrow = Lit(T, 2) => cin \notin Bit(T)

C10_Witness ==
  /\ called = "add_with_carry_const"
  /\ T = "__uint128_t"
  /\ a = Max(T) /\ b = Max(T) /\ cin = Lit(T, 2)
  /\ result = [sum |-> Lit(T, 0), carry |-> Lit(T, 2)]

====
